---- MODULE Spec2Model ----
(***************************************************************************)
(* License Authority of the 4tik repository: the validate-license and      *)
(* check-session handlers (Vercel, Netlify and Express deployments) over    *)
(* the remote license collection, which every request reads whole and,     *)
(* for a successful validation, writes back whole.                         *)
(*                                                                         *)
(* Time is counted in ticks, Day ticks to the day.  A timestamp is a tick  *)
(* count >= StartTime; the two `new Date()` reads of one activation fall   *)
(* in the same tick.  A JSON value that is absent (undefined) and one that *)
(* is null are kept apart, because `new Date(null)` is the epoch while     *)
(* `new Date(undefined)` is an invalid date.                               *)
(***************************************************************************)
EXTENDS Integers, Sequences, FiniteSets, TLC

(* ------------------------------ bounds -------------------------------- *)
MaxTime == 4
MaxValid == 3

(* --------------------------- program constants ------------------------ *)
Day == 2
StartTime == 1
Epoch == 0
CookieMaxAge == 86400
ExpressMaxAgeMs == 86400000

(* JSON null / undefined for number- and timestamp-valued fields *)
NULL == -1
UNDEF == -2
(* JSON null / undefined for string-valued fields *)
NullStr == "<null>"
UndefStr == "<undefined>"

(* the requests that may be in flight at the same time *)
ReqIds == {"r1", "r2"}
(* positions of the collection that the history variables follow *)
Slots == {1, 2}
Variants == {"vercel", "netlify", "express"}
Devices == {"dev1", "dev2"}

(* user-agent headers, as the set of the tested substrings they contain   *)
UserAgents == {{"iPhone", "Mac"}}

(* license keys are strings over a small alphabet, as character sequences *)
Key1 == <<"A", "B">>
KeyInputs == { <<" ", "a", "B", " ">>, <<" ", "z">> }
(* the request bodies: both members present, or one of them missing *)
Bodies ==
    {<<k, d>> : k \in KeyInputs, d \in Devices}
        \cup {<<(<<>>), "dev1">>, <<(<<" ", "a", "B", " ">>), "">>}
(* the bodies of the overlapping requests: the same license, any device *)
RaceBodies == {<<(<<" ", "a", "B", " ">>), d>> : d \in Devices}

(* ------------------------- pure helper functions ---------------------- *)
toUpperCase(c) ==
    CASE c = "a" -> "A"
      [] c = "b" -> "B"
      [] c = "c" -> "C"
      [] c = "d" -> "D"
      [] c = "z" -> "Z"
      [] OTHER -> c

RECURSIVE TrimStart(_)
TrimStart(s) ==
    IF s # <<>> /\ Head(s) = " " THEN TrimStart(Tail(s)) ELSE s

RECURSIVE TrimEnd(_)
TrimEnd(s) ==
    IF s # <<>> /\ s[Len(s)] = " " THEN TrimEnd(SubSeq(s, 1, Len(s) - 1)) ELSE s

trim(s) == TrimEnd(TrimStart(s))

normalize(k) ==
    IF k # <<>> THEN [i \in 1 .. Len(trim(k)) |-> toUpperCase(trim(k)[i])] ELSE <<>>

(* licenses.findIndex(l => normalize(l.key) === inputKey); 0 stands for -1 *)
findIndex(licenses, inputKey) ==
    IF \E i \in 1 .. Len(licenses) : normalize(licenses[i].key) = inputKey
    THEN CHOOSE i \in 1 .. Len(licenses) :
            /\ normalize(licenses[i].key) = inputKey
            /\ \A j \in 1 .. (i - 1) : normalize(licenses[j].key) # inputKey
    ELSE 0

simplifyUserAgent(ua) ==
    IF ua \cap {"iPhone", "iPad", "iPod"} # {} THEN "Apple Device"
    ELSE IF "Android" \in ua THEN "Android Device"
    ELSE IF "Windows" \in ua THEN "Windows PC"
    ELSE IF "Mac" \in ua THEN "Mac Computer"
    ELSE "Unknown Device"

(* JavaScript truthiness *)
TruthyNum(x) == x \notin {NULL, UNDEF, 0}
TruthyTime(x) == x \notin {NULL, UNDEF}
TruthyStr(x) == x \notin {NullStr, UndefStr, ""}

(* new Date(x) < new Date(t): null is the epoch, undefined an invalid date *)
DateBefore(x, t) ==
    IF x = UNDEF THEN FALSE ELSE (IF x = NULL THEN Epoch ELSE x) < t

(* Math.ceil(n / d) for d > 0 *)
Ceil(n, d) == IF n % d = 0 THEN n \div d ELSE (n \div d) + 1

(* Math.ceil((new Date(x) - now) / one day); NaN is serialised as null *)
remainingDays(x, t) ==
    IF x = UNDEF THEN NULL ELSE Ceil((IF x = NULL THEN Epoch ELSE x) - t, Day)

(* ------------------------- responses of the API ----------------------- *)
NoLicense == [none |-> TRUE]
NoCookie == [name |-> "<none>"]
NoResp == [status |-> 0, valid |-> FALSE, error |-> UndefStr,
           license |-> NoLicense, cookie |-> NoCookie]

(* Buffer.from(`${license.key}:${deviceId}:${Date.now()}`) in the cookie   *)
(* flowtik_token=...; Path=/; HttpOnly; SameSite=Strict; Max-Age=86400     *)
SessionCookie(license, deviceId, t) ==
    [name |-> "flowtik_token", key |-> license.key, deviceId |-> deviceId,
     issued |-> t, httpOnly |-> TRUE, sameSite |-> "Strict",
     maxAge |-> CookieMaxAge]

(* res.cookie('flowtik_token', token, {httpOnly, sameSite: 'strict',       *)
(* maxAge: 24*60*60*1000}) of the Express deployment: maxAge is given in   *)
(* milliseconds and sent as Max-Age in seconds                             *)
ExpressCookie(license, deviceId, t) ==
    [name |-> "flowtik_token", key |-> license.key, deviceId |-> deviceId,
     issued |-> t, httpOnly |-> TRUE, sameSite |-> "Strict",
     maxAge |-> ExpressMaxAgeMs \div 1000]

(* a Set-Cookie without the HttpOnly attribute *)
CookieOfReadable(license, deviceId, t, variant) ==
    [SessionCookie(license, deviceId, t) EXCEPT !.httpOnly = FALSE]

(* the cookie a deployment sets on success *)
CookieOf(license, deviceId, t, variant) ==
    IF variant = "express" THEN ExpressCookie(license, deviceId, t)
    ELSE SessionCookie(license, deviceId, t)

Failure(status, error) ==
    [status |-> status, valid |-> FALSE, error |-> error,
     license |-> NoLicense, cookie |-> NoCookie]

Success(view, cookie) ==
    [status |-> 200, valid |-> TRUE, error |-> UndefStr,
     license |-> view, cookie |-> cookie]

NumFields == {"expiresAt", "activatedAt", "activated_on", "remainingDays",
              "processed_videos"}

(* JSON.stringify drops the members whose value is undefined *)
Stringify(view) ==
    [f \in {g \in DOMAIN view :
              IF g \in NumFields THEN view[g] # UNDEF ELSE view[g] # UndefStr}
       |-> view[f]]

OrStr(x, dflt) == IF TruthyStr(x) THEN x ELSE dflt
OrNum(x, dflt) == IF TruthyNum(x) THEN x ELSE dflt

(* a response that returns the stored record as it is *)
ValidateViewRaw(license, variant) ==
    Stringify(
      [key |-> license.key,
       plan |-> license.plan,
       expiresAt |-> license.expires_at,
       activatedAt |-> license.activated_on,
       processed_videos |-> license.processed_videos,
       device_name |-> license.device_name,
       device_hash |-> license.device_hash])

(* the `license` member of a successful validate-license response *)
ValidateView(license, variant) ==
    Stringify(
      [key |-> license.key,
       plan |-> IF variant = "express" THEN license.plan
                ELSE OrStr(license.plan, "Premium"),
       expiresAt |-> license.expires_at,
       activatedAt |-> license.activated_on,
       processed_videos |-> IF variant = "vercel"
                            THEN OrNum(license.processed_videos, 0)
                            ELSE license.processed_videos,
       device_name |-> IF variant = "vercel"
                       THEN OrStr(license.device_name, "Device not specified")
                       ELSE license.device_name])

(* a check-session that counts the call as a use *)
CheckReportedVideosPlusOne(license, variant) ==
    OrNum(license.processed_videos, 0) + 1

(* processed_videos as check-session reports it *)
CheckReportedVideos(license, variant) ==
    IF variant = "vercel"
    THEN OrNum(license.processed_videos, OrNum(license.processedVideos, 0))
    ELSE license.processed_videos

(* the `license` member of a successful check-session response *)
CheckView(license, t, variant) ==
    Stringify(
      [key |-> license.key,
       plan |-> IF variant = "express" THEN license.plan
                ELSE OrStr(license.plan, "Premium"),
       expiresAt |-> license.expires_at,
       remainingDays |-> remainingDays(license.expires_at, t),
       processed_videos |-> CheckReportedVideos(license, variant),
       device_name |-> IF variant = "vercel"
                       THEN OrStr(license.device_name,
                                  OrStr(license.deviceName, "Device not specified"))
                       ELSE license.device_name,
       activated_on |-> license.activated_on])

(* ----------------- validate-license: the record logic ----------------- *)
isActivated(license) == TruthyTime(license.activated_on)

(* an activation that adds the duration to the clock without converting   *)
(* days to clock units                                                     *)
ActivateDurationInTicks(license, deviceId, ua, t) ==
    IF ~isActivated(license)
    THEN [license EXCEPT
            !.activated_on = t,
            !.device_hash = deviceId,
            !.device_name = simplifyUserAgent(ua),
            !.processed_videos = 0,
            !.expires_at = IF TruthyNum(license.duration_days)
                           THEN t + license.duration_days ELSE @]
    ELSE license

(* SMART ACTIVATION LOGIC: first use stamps the record, in memory *)
Activate(license, deviceId, ua, t) ==
    IF ~isActivated(license)
    THEN [license EXCEPT
            !.activated_on = t,
            !.device_hash = deviceId,
            !.device_name = simplifyUserAgent(ua),
            !.processed_videos = 0,
            !.expires_at = IF TruthyNum(license.duration_days)
                           THEN t + license.duration_days * Day ELSE @]
    ELSE license

(* a handler without the device lock *)
DeviceLockNever(license, deviceId) == FALSE

(* 1. Device Lock *)
DeviceLock(license, deviceId) ==
    TruthyStr(license.device_hash) /\ license.device_hash # deviceId

(* a handler without the expiration check *)
ExpirationCheckNever(license, t) == FALSE

(* 2. Expiration Check *)
ExpirationCheck(license, t) ==
    TruthyTime(license.expires_at) /\ license.expires_at < t

(* USAGE TRACKING *)
UsageTracking(license) ==
    [license EXCEPT !.processed_videos = OrNum(@, 0) + 1]

(* outcome of the store's answer to the PUT of the whole collection *)
PutOutcomes == {"ok", "httpError", "rejected"}

(* the error of the catch block *)
CatchError(variant) == IF variant = "express" THEN "server_error" ELSE "network"

(* error of the 400 answer to a request without licenseKey or deviceId *)
MissingInputError(op, variant) ==
    CASE variant = "vercel" -> "Missing license key or device ID"
      [] variant = "netlify" /\ op = "validate" -> "Missing license key or device ID"
      [] variant = "netlify" /\ op = "check" -> "Missing data"
      [] variant = "express" /\ op = "validate" -> "Missing Data"
      [] OTHER -> UndefStr

(* answer to a request that stops before the store is read, or NoResp      *)
EarlyResponse(op, licenseKey, deviceId, variant, env, fetchOk) ==
    IF licenseKey = <<>> \/ deviceId = ""
    THEN Failure(400, MissingInputError(op, variant))
    ELSE IF ~env /\ (variant = "vercel" \/ (variant = "netlify" /\ op = "validate"))
    THEN Failure(500, "Server configuration error")
    ELSE IF ~env \/ ~fetchOk
    THEN Failure(500, CatchError(variant))
    ELSE NoResp

(* validate-license from the lookup on: the answer, whether the collection *)
(* is PUT, and the collection that is PUT                                  *)
ValidateLicense(licenses, licenseKey, deviceId, ua, t, variant, put) ==
    LET licenseIndex == findIndex(licenses, normalize(licenseKey)) IN
    IF licenseIndex = 0
    THEN [resp |-> Failure(200, "invalidLicense"), write |-> FALSE,
          licenses |-> licenses]
    ELSE
    LET activated == Activate(licenses[licenseIndex], deviceId, ua, t)
        license == UsageTracking(activated)
        updated == [licenses EXCEPT ![licenseIndex] = license]
    IN  IF DeviceLock(activated, deviceId)
        THEN [resp |-> Failure(200, "deviceMismatch"), write |-> FALSE,
              licenses |-> licenses]
        ELSE IF ExpirationCheck(activated, t)
        THEN [resp |-> Failure(200, "expired"), write |-> FALSE,
              licenses |-> licenses]
        ELSE IF put = "rejected" \/ (put = "httpError" /\ variant = "vercel")
        THEN [resp |-> Failure(500, CatchError(variant)), write |-> FALSE,
              licenses |-> licenses]
        ELSE [resp |-> Success(ValidateView(license, variant),
                               CookieOf(license, deviceId, t, variant)),
              write |-> (put = "ok"),
              licenses |-> updated]

(* a check-session that uses the device lock of validate-license *)
CheckDeviceMismatchWhenBound(license, deviceId) ==
    TruthyStr(license.device_hash) /\ license.device_hash # deviceId

(* check-session: Device mismatch *)
CheckDeviceMismatch(license, deviceId) == license.device_hash # deviceId

(* check-session from the lookup on: the answer (it never writes) *)
CheckSession(licenses, licenseKey, deviceId, t, variant) ==
    LET licenseIndex == findIndex(licenses, normalize(licenseKey)) IN
    IF licenseIndex = 0 THEN Failure(200, "deleted")
    ELSE
    LET license == licenses[licenseIndex] IN
        IF CheckDeviceMismatch(license, deviceId)
        THEN Failure(200, "deviceMismatch")
        ELSE IF DateBefore(license.expires_at, t)
        THEN Failure(200, "expired")
        ELSE Success(CheckView(license, t, variant),
                     CookieOf(license, deviceId, t, variant))

(* ------------------------------- state -------------------------------- *)
VARIABLES
    store,      \* the license collection held by the remote store
    now,        \* the clock
    envOk,      \* whether the store credentials are configured
    req,        \* the requests in flight: operation, body, collection read
    last,       \* the exchange completed last: request, position found, answer
    okDevices,  \* history: per record, the device ids validate answered valid:true to
    okCount,    \* history: per record, the number of valid:true answers of validate
    gate,       \* the request for a file under /lib answered last by the gate
    storage,    \* the browser's localStorage: the entries that are present
    cache,      \* the call of the Session Cache completed last
    auth,       \* the Auth Coordinator: isAuthenticated, currentSession, deviceId
    call,       \* the call of the Auth Coordinator completed last
    pend,       \* the coordinator call that awaits the answer of the Authority
    ret         \* what the coordinator call that ended last returned or threw

vars == <<store, now, envOk, req, last, okDevices, okCount, gate, storage, cache,
          auth, call, pend, ret>>

(* the variables of the gate and of the browser *)
clientVars == <<gate, storage, cache, auth, call, pend, ret>>

(* the variables of the Auth Coordinator *)
authVars == <<auth, call, pend, ret>>

(* no session in memory: currentSession = null *)
NoSession == [none |-> TRUE]

(* a coordinator that starts with, and falls back to, a device id *)
SignedOutWithDevice == [isAuthenticated |-> FALSE, currentSession |-> NoSession,
                        deviceId |-> "dev1"]

(* AuthManager.constructor *)
SignedOut == [isAuthenticated |-> FALSE, currentSession |-> NoSession,
              deviceId |-> NullStr]

(* no call of the Auth Coordinator completed yet *)
NoAuthCall == [op |-> "none", ok |-> FALSE, sent |-> 0, remote |-> "none", seq |-> 0]

(* no coordinator call awaits an answer *)
NoPend == [op |-> "none"]

(* no coordinator call ended yet *)
NoReturn == [op |-> "none"]

(* no request for a file answered yet *)
NoGate == [path |-> "<none>", cookie |-> FALSE, status |-> 0, served |-> FALSE]

(* localStorage with no entry *)
EmptyStorage == [k \in {} |-> NullStr]

(* no call of the Session Cache completed yet *)
NoCall == [op |-> "none"]

(* a provisioned record: created out of band, not yet activated *)
Provisioned(key, plan, duration, expires, explicitNulls) ==
    [key |-> key, plan |-> plan,
     activated_on |-> IF explicitNulls THEN NULL ELSE UNDEF,
     device_hash |-> IF explicitNulls THEN NullStr ELSE UndefStr,
     device_name |-> UndefStr,
     expires_at |-> expires,
     duration_days |-> duration,
     processed_videos |-> IF explicitNulls THEN 0 ELSE UNDEF,
     processedVideos |-> UNDEF,
     deviceName |-> UndefStr]

(* the shapes in which the first record is provisioned: with a duration,   *)
(* without any expiry (members absent or null), with a fixed expiry date   *)
Shapes1 ==
    { Provisioned(Key1, "Gold", 1, UNDEF, FALSE),
      Provisioned(Key1, "Gold", UNDEF, UNDEF, FALSE),
      Provisioned(Key1, "Gold", NULL, NULL, TRUE),
      Provisioned(Key1, "Gold", UNDEF, StartTime + 1, FALSE) }

NoRecord == [none |-> TRUE]
IdleReq == [op |-> "none", licenseKey |-> <<>>, deviceId |-> "", licenses |-> <<>>]
NoExchange ==
    [op |-> "none", index |-> 0, wrote |-> FALSE, resp |-> NoResp]

Init ==
    /\ store \in {<<r1>> : r1 \in Shapes1}
    /\ now = StartTime
    /\ envOk \in BOOLEAN
    /\ req = [r \in ReqIds |-> IdleReq]
    /\ last = NoExchange
    /\ okDevices = [i \in Slots |-> {}]
    /\ okCount = [i \in Slots |-> 0]
    /\ gate = NoGate
    /\ storage = EmptyStorage
    /\ cache = NoCall
    /\ auth = SignedOut
    /\ call = NoAuthCall
    /\ pend = NoPend
    /\ ret = NoReturn

InFlightValidates == Cardinality({r \in ReqIds : req[r].op = "validate"})

(* the record a request found in the collection it read *)
Seen(licenses, licenseKey) ==
    IF findIndex(licenses, normalize(licenseKey)) = 0 THEN NoRecord
    ELSE licenses[findIndex(licenses, normalize(licenseKey))]

(* ------------------------------ actions ------------------------------- *)
(* a request arrives at one of the deployments: input and configuration    *)
(* checks, then the GET of the whole collection                            *)
Arrive(r, op, body, variant, fetchOk) ==
    /\ req[r].op = "none"
    /\ op = "validate" => okCount[1] + okCount[2] + InFlightValidates < MaxValid
    /\ LET early == EarlyResponse(op, body[1], body[2], variant, envOk, fetchOk) IN
       IF early # NoResp
       THEN /\ last' = [op |-> op, index |-> 0, wrote |-> FALSE, resp |-> early]
            /\ req' = req
       ELSE /\ req' = [req EXCEPT ![r] = [op |-> op, licenseKey |-> body[1],
                                          deviceId |-> body[2], licenses |-> store]]
            /\ last' = last
    /\ UNCHANGED <<store, now, envOk, okDevices, okCount, clientVars>>

(* a store that refuses a collection that was read before its last change *)
PutVersioned(stored, read, body) == IF stored = read THEN body ELSE stored

(* PUT of { licenses } to the bin: the store replaces the whole collection *)
(* it holds by the body, whatever it holds                                 *)
Put(stored, read, body) == body

(* validate-license after the GET: activation, guards, counter, PUT, answer *)
ValidateStep(r, ua, variant, put) ==
    /\ req[r].op = "validate"
    /\ LET out == ValidateLicense(req[r].licenses, req[r].licenseKey,
                                  req[r].deviceId, ua, now, variant, put)
           i == findIndex(req[r].licenses, normalize(req[r].licenseKey))
       IN  /\ last' = [op |-> "validate", index |-> i,
                       wrote |-> out.write, resp |-> out.resp]
           /\ store' = IF out.write THEN Put(store, req[r].licenses, out.licenses)
                       ELSE store
           /\ IF out.resp.valid
              THEN /\ okDevices' = [okDevices EXCEPT ![i] = @ \cup {req[r].deviceId}]
                   /\ okCount' = [okCount EXCEPT ![i] = @ + 1]
              ELSE UNCHANGED <<okDevices, okCount>>
    /\ req' = [req EXCEPT ![r] = IdleReq]
    /\ UNCHANGED <<now, envOk, clientVars>>

(* check-session after the GET: guards, answer *)
CheckStep(r, variant) ==
    /\ req[r].op = "check"
    /\ last' = [op |-> "check",
                index |-> findIndex(req[r].licenses, normalize(req[r].licenseKey)),
                wrote |-> FALSE,
                resp |-> CheckSession(req[r].licenses, req[r].licenseKey,
                                      req[r].deviceId, now, variant)]
    /\ req' = [req EXCEPT ![r] = IdleReq]
    /\ UNCHANGED <<store, now, envOk, okDevices, okCount, clientVars>>

Tick ==
    /\ now < MaxTime
    /\ now' = now + 1
    /\ UNCHANGED <<store, envOk, req, last, okDevices, okCount, clientVars>>

(* requests served one after another, with every input and every failure  *)
(* of the store                                                            *)
Next ==
    \/ \E op \in {"validate", "check"}, body \in Bodies,
          variant \in Variants, fetchOk \in BOOLEAN :
            Arrive("r1", op, body, variant, fetchOk)
    \/ \E ua \in UserAgents, variant \in Variants, put \in PutOutcomes :
            ValidateStep("r1", ua, variant, put)
    \/ \E variant \in Variants : CheckStep("r1", variant)
    \/ Tick

Spec == Init /\ [][Next]_vars

(* two requests for the same key that overlap: each reads the collection,  *)
(* and writes it, at any point of the other                                *)
RaceNext ==
    \/ \E r \in ReqIds, op \in {"validate", "check"}, body \in RaceBodies,
          variant \in Variants :
            Arrive(r, op, body, variant, TRUE)
    \/ \E r \in ReqIds, ua \in UserAgents, variant \in Variants :
            ValidateStep(r, ua, variant, "ok")
    \/ \E r \in ReqIds, variant \in Variants : CheckStep(r, variant)
    \/ Tick

RaceInit == Init /\ envOk /\ TruthyNum(store[1].duration_days)

SpecRace == RaceInit /\ [][RaceNext]_vars

TypeOK ==
    /\ now \in StartTime .. MaxTime
    /\ Len(store) \in Slots
    /\ \A r \in ReqIds : req[r].op \in {"none", "validate", "check"}

(* ------------------------ vocabulary of the properties ---------------- *)
(* in this step request r ran the second half of its handler *)
ValidateDone(r) == req[r].op = "validate" /\ req'[r].op = "none"
CheckDone(r) == req[r].op = "check" /\ req'[r].op = "none"

(* the record request r found in the collection it read *)
Read(r) == Seen(req[r].licenses, req[r].licenseKey)
Found(r) == Read(r) # NoRecord

Bound(license) == TruthyStr(license.device_hash)
PastExpiry(license, t) == TruthyTime(license.expires_at) /\ license.expires_at < t
Videos(license) == OrNum(license.processed_videos, 0)
Records == 1 .. Len(store)

(* C1: a validate or checkSession call on a record whose device_hash is    *)
(* set, made with another device id, is answered valid:false with error    *)
(* deviceMismatch.                                                         *)
C1_DeviceMismatch ==
    [][\A r \in ReqIds :
         ( /\ ValidateDone(r) \/ CheckDone(r)
           /\ Found(r)
           /\ Bound(Read(r))
           /\ Read(r).device_hash # req[r].deviceId )
         => /\ last'.resp.valid = FALSE
            /\ last'.resp.error = "deviceMismatch"]_vars

C1_Witness ==
    /\ last.op = "validate"
    /\ last.resp.error = "deviceMismatch"
    /\ Bound(store[1])
    /\ okDevices[1] # {}

(* C2: for each license key, all the validate calls answered valid:true    *)
(* were made with one and the same device id.                              *)
C2_OneDevicePerKey ==
    \A i \in Slots : Cardinality(okDevices[i]) <= 1

(* C3: once the stored device_hash of a record is set, no step changes it. *)
C3_DeviceHashImmutable ==
    [][\A i \in Records :
         Bound(store[i]) => store'[i].device_hash = store[i].device_hash]_vars

(* C4: once the stored activated_on of a record is set, no step changes    *)
(* it: the record is not activated a second time.                          *)
C4_ActivatedOnPermanent ==
    [][\A i \in Records :
         isActivated(store[i]) => store'[i].activated_on = store[i].activated_on]_vars

(* C5, as claimed: a validate or checkSession call on a record whose       *)
(* expires_at is in the past is answered valid:false with error expired,   *)
(* whatever the device id, and leaves the stored record unchanged.         *)
C5_ExpiredWhateverDevice ==
    [][\A r \in ReqIds :
         ( /\ ValidateDone(r) \/ CheckDone(r)
           /\ Found(r)
           /\ PastExpiry(Read(r), now) )
         => /\ last'.resp.valid = FALSE
            /\ last'.resp.error = "expired"
            /\ store' = store]_vars

(* C5, amended: a validate or checkSession call on an activated, bound     *)
(* record whose expires_at is in the past is answered valid:false and      *)
(* leaves the store unchanged; the error is expired when the device id is  *)
(* the bound one and deviceMismatch when it is another one.                *)
C5_ExpiredBoundRecord ==
    [][\A r \in ReqIds :
         ( /\ ValidateDone(r) \/ CheckDone(r)
           /\ Found(r)
           /\ isActivated(Read(r)) /\ Bound(Read(r))
           /\ PastExpiry(Read(r), now) )
         => /\ last'.resp.valid = FALSE
            /\ last'.resp.error = IF Read(r).device_hash = req[r].deviceId
                                  THEN "expired" ELSE "deviceMismatch"
            /\ last'.wrote = FALSE
            /\ store' = store]_vars

C5_Witness ==
    /\ last.op = "validate"
    /\ last.resp.error = "expired"
    /\ isActivated(store[1]) /\ Bound(store[1])
    /\ PastExpiry(store[1], now)

(* C6: the stored processed_videos of a record never decreases.            *)
C6_VideosNeverDecrease ==
    [][\A i \in Records : Videos(store'[i]) >= Videos(store[i])]_vars

(* C7: the stored processed_videos of a record provisioned Unactivated     *)
(* equals the number of validate calls on it that were answered            *)
(* valid:true.                                                             *)
C7_VideosCountSuccesses ==
    \A i \in Records : Videos(store[i]) = okCount[i]

(* C8: checkSession never changes the stored processed_videos, and a       *)
(* successful checkSession reports the stored value.                       *)
C8_CheckKeepsVideos ==
    [][\A r \in ReqIds :
         CheckDone(r)
         => /\ store' = store
            /\ last'.resp.valid
                 => /\ "processed_videos" \in DOMAIN last'.resp.license
                    /\ last'.resp.license.processed_videos
                         = store[last'.index].processed_videos]_vars

C8_Witness ==
    /\ last.op = "check"
    /\ last.resp.valid
    /\ last.resp.license.processed_videos = 2
    /\ store[1].processed_videos = 2

(* C9: checkSession on an Unactivated record (activated_on unset, no bound *)
(* device) is answered valid:false for every device id, and writes         *)
(* nothing: the record stays Unactivated.                                  *)
C9_CheckNeverActivates ==
    [][\A r \in ReqIds :
         ( /\ CheckDone(r)
           /\ Found(r)
           /\ ~isActivated(Read(r)) /\ ~Bound(Read(r)) )
         => /\ last'.resp.valid = FALSE
            /\ last'.wrote = FALSE
            /\ store' = store]_vars

C9_Witness ==
    /\ last.op = "check"
    /\ last.index = 1
    /\ last.resp.valid = FALSE
    /\ ~isActivated(store[1]) /\ ~Bound(store[1])
    /\ store[1].expires_at = UNDEF

(* C10: the first validate on an Unactivated record with duration_days = d *)
(* under a key that differs from the stored one in letter case and         *)
(* surrounding whitespace, the store answering, is answered valid:true     *)
(* with activatedAt = now, expiresAt = now + d days, processed_videos = 1, *)
(* and stores activated_on = now, device_hash = the device id supplied and *)
(* expires_at = now + d days.                                              *)
C10_FirstValidate ==
    [][\A r \in ReqIds :
         ( /\ ValidateDone(r)
           /\ req[r].licenseKey = <<" ", "a", "B", " ">>
           /\ req[r].licenses[1].key = Key1
           /\ ~isActivated(req[r].licenses[1])
           /\ TruthyNum(req[r].licenses[1].duration_days)
           /\ last'.wrote )
         => LET d == req[r].licenses[1].duration_days IN
            /\ last'.resp.valid
            /\ last'.resp.license.activatedAt = now
            /\ last'.resp.license.expiresAt = now + d * Day
            /\ last'.resp.license.processed_videos = 1
            /\ store'[1].activated_on = now
            /\ store'[1].device_hash = req[r].deviceId
            /\ store'[1].expires_at = now + d * Day
            /\ store'[1].processed_videos = 1]_vars

C10_Witness ==
    /\ last.op = "validate"
    /\ last.wrote
    /\ last.resp.valid
    /\ "expiresAt" \in DOMAIN last.resp.license
    /\ last.resp.license.activatedAt = now
    /\ last.resp.license.expiresAt = now + Day
    /\ last.resp.license.processed_videos = 1
    /\ store[1].activated_on = now
    /\ store[1].expires_at = now + Day

(* C11: validate and checkSession look the key up after trimming and      *)
(* uppercasing the supplied key and the stored keys, and when no record    *)
(* matches both answer valid:false with error invalidLicense and do not    *)
(* write the store.                                                        *)
C11_NoMatchInvalidLicense ==
    [][\A r \in ReqIds :
         ( /\ ValidateDone(r) \/ CheckDone(r)
           /\ \A i \in 1 .. Len(req[r].licenses) :
                 normalize(req[r].licenses[i].key) # normalize(req[r].licenseKey) )
         => /\ last'.resp.valid = FALSE
            /\ last'.resp.error = "invalidLicense"
            /\ last'.wrote = FALSE
            /\ store' = store]_vars

(* the members of the sanitized license view of validate *)
ValidateFields ==
    {"key", "plan", "expiresAt", "activatedAt", "processed_videos", "device_name"}

(* device ids a record may be bound to *)
HashValues == Devices \cup {"dev3"}

(* C12: no response of validate or checkSession has a device_hash member;  *)
(* a successful validate response has the members key, plan, expiresAt,    *)
(* activatedAt, processed_videos and device_name and no other (expiresAt   *)
(* is left out by the serialisation when the record has no expires_at);    *)
(* and the answer to a caller with a wrong device id is the same whichever *)
(* device id the record is bound to.                                       *)
C12_NoDeviceHashInResponse ==
    [][\A r \in ReqIds :
         (ValidateDone(r) \/ CheckDone(r))
         => /\ "device_hash" \notin DOMAIN last'.resp.license
            /\ (ValidateDone(r) /\ last'.resp.valid)
                 => /\ DOMAIN last'.resp.license \subseteq ValidateFields
                    /\ ValidateFields \ DOMAIN last'.resp.license \subseteq {"expiresAt"}
                    /\ "expiresAt" \notin DOMAIN last'.resp.license
                          => store'[last'.index].expires_at = UNDEF
            /\ (Found(r) /\ Bound(Read(r)) /\ Read(r).device_hash # req[r].deviceId)
                 => \A h \in HashValues \ {req[r].deviceId}, v \in Variants :
                      LET other == [req[r].licenses EXCEPT
                                       ![last'.index].device_hash = h]
                      IN  /\ ValidateLicense(other, req[r].licenseKey, req[r].deviceId,
                                             {}, now, v, "ok").resp
                               = ValidateLicense(req[r].licenses, req[r].licenseKey,
                                                 req[r].deviceId, {}, now, v, "ok").resp
                          /\ CheckSession(other, req[r].licenseKey, req[r].deviceId,
                                          now, v)
                               = CheckSession(req[r].licenses, req[r].licenseKey,
                                              req[r].deviceId, now, v)]_vars

C12_Witness ==
    /\ last.op = "validate"
    /\ last.resp.valid
    /\ DOMAIN last.resp.license = ValidateFields
    /\ store[1].device_hash = "dev2"

(* C13: a successful checkSession returns the members key, plan,           *)
(* expiresAt, activatedAt, processed_videos and device_name with the       *)
(* values validate reports for the stored record, plus remainingDays =     *)
(* ceil((expiresAt - now) / 1 day).                                        *)
C13_CheckViewLikeValidate ==
    [][\A r \in ReqIds, v \in Variants :
         ( /\ CheckDone(r)
           /\ last'.resp.valid
           /\ last'.resp = CheckSession(req[r].licenses, req[r].licenseKey,
                                        req[r].deviceId, now, v) )
         => LET view == ValidateView(Read(r), v) IN
            /\ DOMAIN last'.resp.license = DOMAIN view \cup {"remainingDays"}
            /\ \A f \in DOMAIN view : last'.resp.license[f] = view[f]
            /\ last'.resp.license.remainingDays
                 = remainingDays(Read(r).expires_at, now)]_vars

(* C14: every validate or checkSession response with valid:true sets the   *)
(* cookie flowtik_token with HttpOnly, SameSite=Strict and Max-Age=86400,  *)
(* and no response with valid:false sets a cookie.                         *)
C14_CookieIffValid ==
    last.op \in {"validate", "check"}
    => IF last.resp.valid
       THEN /\ last.resp.cookie.name = "flowtik_token"
            /\ last.resp.cookie.httpOnly
            /\ last.resp.cookie.sameSite = "Strict"
            /\ last.resp.cookie.maxAge = 86400
       ELSE last.resp.cookie = NoCookie

C14_Witness ==
    /\ last.op = "check"
    /\ last.resp.valid
    /\ last.resp.cookie.name = "flowtik_token"
    /\ last.resp.cookie.deviceId = store[1].device_hash

(* ----------------------- the protected-resource gate ------------------ *)
(* the files requested under /lib *)
Paths == {"/lib/ffmpeg-core.wasm", "/lib/ffmpeg-core.worker.js", "/lib/ffmpeg.js"}

(* pathname.includes('ffmpeg-core.wasm') ||                                *)
(* pathname.includes('ffmpeg-core.worker.js')                              *)
IsEngineFile(path) ==
    path \in {"/lib/ffmpeg-core.wasm", "/lib/ffmpeg-core.worker.js"}

(* the request goes on to the asset *)
PassThrough == [status |-> 200, served |-> TRUE]
Unauthorized == [status |-> 403, served |-> FALSE]

(* the gate of each deployment; hasToken: the request carries the cookie   *)
(* flowtik_token. In the Vercel middleware the 403 is commented out and    *)
(* every request ends in `return fetch(request)`.                          *)
Gate(variant, path, hasToken) ==
    CASE variant = "vercel" -> PassThrough
      [] variant = "netlify" ->
            IF IsEngineFile(path) /\ ~hasToken THEN Unauthorized ELSE PassThrough
      [] variant = "express" ->
            IF IsEngineFile(path) /\ ~hasToken THEN Unauthorized ELSE PassThrough

(* the browser asks for a file under /lib; it can present the cookie only  *)
(* after a response has set it                                             *)
GateRequest(variant, path, hasToken) ==
    /\ hasToken => last.resp.cookie # NoCookie
    /\ gate' = [path |-> path, cookie |-> hasToken,
                status |-> Gate(variant, path, hasToken).status,
                served |-> Gate(variant, path, hasToken).served]
    /\ UNCHANGED <<store, now, envOk, req, last, okDevices, okCount,
                   storage, cache, authVars>>

(* the Authority answering one request at a time, and the gate *)
GateNext ==
    \/ \E op \in {"validate", "check"}, body \in RaceBodies, variant \in Variants :
            Arrive("r1", op, body, variant, TRUE)
    \/ \E ua \in UserAgents, variant \in Variants :
            ValidateStep("r1", ua, variant, "ok")
    \/ \E variant \in Variants : CheckStep("r1", variant)
    \/ \E variant \in Variants, path \in Paths, hasToken \in BOOLEAN :
            GateRequest(variant, path, hasToken)
    \/ Tick

SpecGate == RaceInit /\ [][GateNext]_vars

(* C15: in every deployment the gate answers 403 to every request for      *)
(* ffmpeg-core.wasm or ffmpeg-core.worker.js that carries no session-token *)
(* cookie, and such a request never reaches the asset.                     *)
C15_GateRejectsWithoutCookie ==
    (IsEngineFile(gate.path) /\ ~gate.cookie)
    => gate.status = 403 /\ ~gate.served

(* --------------------------- the Session Cache ------------------------ *)
(* CONFIG.APP.SESSION_DURATION: 24 * 60 * 60 * 1000 ms *)
SessionDuration == Day

(* CONFIG.STORAGE: the entries of localStorage the Session Cache uses *)
SESSION == "flowmotion_session"
LICENSE_KEY == "flowmotion_license"
DEVICE_ID == "flowmotion_device"
CacheKeys == {SESSION, LICENSE_KEY, DEVICE_ID}

setItem(st, k, v) == [x \in DOMAIN st \cup {k} |-> IF x = k THEN v ELSE st[x]]
(* a removeItem that removes nothing *)
removeItemNoop(st, k) == st
removeItem(st, k) == [x \in DOMAIN st \ {k} |-> st[x]]
(* getItem answers null for an entry that is not there *)
getItemStr(st, k) == IF k \in DOMAIN st THEN st[k] ELSE NullStr

(* o.f !== undefined, and o.f = v *)
Has(o, f) == f \in DOMAIN o
WithMember(o, f, v) == [x \in DOMAIN o \cup {f} |-> IF x = f THEN v ELSE o[x]]

(* a logout that leaves the device id behind *)
destroySessionKeepsDevice(st) ==
    removeItem(removeItem(st, SESSION), LICENSE_KEY)

(* API.destroySession *)
destroySession(st) ==
    removeItem(removeItem(removeItem(st, SESSION), LICENSE_KEY), DEVICE_ID)

(* "Normalize field names to ensure both processedVideos and               *)
(* processed_videos exist": the only pair of spellings the code copies     *)
normalizeFieldNames(license) ==
    IF Has(license, "processed_videos") /\ ~Has(license, "processedVideos")
    THEN WithMember(license, "processedVideos", license.processed_videos)
    ELSE IF Has(license, "processedVideos") /\ ~Has(license, "processed_videos")
    THEN WithMember(license, "processed_videos", license.processedVideos)
    ELSE license

(* JSON.stringify(session): the members of the license that are undefined  *)
(* are dropped; the members of the session never are                       *)
StringifySession(session) ==
    [session EXCEPT !.license =
        [f \in {g \in DOMAIN @ :
                  IF g \in NumFields \cup {"processedVideos"}
                  THEN @[g] # UNDEF ELSE @[g] # UndefStr} |-> @[f]]]

(* API.createSession(licenseData, deviceId = null): the session returned   *)
(* and localStorage afterwards                                             *)
createSession(st, licenseData, deviceId, t) ==
    LET st1 == IF TruthyStr(deviceId) THEN setItem(st, DEVICE_ID, deviceId) ELSE st
        session == [license |-> normalizeFieldNames(licenseData),
                    deviceId |-> IF TruthyStr(deviceId) THEN deviceId
                                 ELSE getItemStr(st1, DEVICE_ID),
                    createdAt |-> t,
                    expiresAt |-> t + SessionDuration]
    IN  [session |-> session,
         storage |-> setItem(setItem(st1, SESSION, StringifySession(session)),
                             LICENSE_KEY, licenseData.key)]

(* a stored text that JSON.parse rejects *)
Garbage == [text |-> "{not json"]
Parses(blob) == ~Has(blob, "text")

(* !sessionData.license || !sessionData.license.expiresAt *)
InvalidStructure(sessionData) ==
    \/ ~Has(sessionData, "license")
    \/ ~Has(sessionData.license, "expiresAt")
    \/ ~TruthyTime(sessionData.license.expiresAt)

Invalid(error) == [valid |-> FALSE, error |-> error, session |-> NoSession]
Valid(session) == [valid |-> TRUE, error |-> UndefStr, session |-> session]

(* the two expiries checked with the license expiry first *)
ExpiryErrorLicenseFirst(sessionData, t) ==
    IF DateBefore(sessionData.license.expiresAt, t) THEN "subscription_expired"
    ELSE IF Has(sessionData, "expiresAt") /\ sessionData.expiresAt < t
    THEN "session_expired"
    ELSE UndefStr

(* "Check session expiration" then "Check license expiration" *)
ExpiryError(sessionData, t) ==
    IF Has(sessionData, "expiresAt") /\ sessionData.expiresAt < t
    THEN "session_expired"
    ELSE IF DateBefore(sessionData.license.expiresAt, t) THEN "subscription_expired"
    ELSE UndefStr

(* API.checkSession: the answer and localStorage afterwards *)
checkSession(st, t) ==
    IF ~Has(st, SESSION)
    THEN [result |-> Invalid("no_session"), storage |-> st]
    ELSE LET sessionData == st[SESSION] IN
         IF ~Parses(sessionData)
         THEN [result |-> Invalid("invalid_data"), storage |-> destroySession(st)]
         ELSE IF InvalidStructure(sessionData)
         THEN [result |-> Invalid("invalid_session_structure"),
               storage |-> destroySession(st)]
         ELSE IF ExpiryError(sessionData, t) # UndefStr
         THEN [result |-> Invalid(ExpiryError(sessionData, t)), storage |-> st]
         ELSE [result |-> Valid([sessionData EXCEPT
                                    !.license = normalizeFieldNames(@)]),
               storage |-> st]

(* the records whose snapshots reach the browser: the provisioned shapes   *)
(* and a license that outlives the local session                           *)
CacheShapes == Shapes1 \cup {Provisioned(Key1, "Gold", 2, UNDEF, FALSE)}

(* the license of a response, when the response is valid:true *)
LicensesOf(resps) == {x.license : x \in {y \in resps : y.valid}}

(* the license snapshots the Authority can return at time t to the device  *)
(* that activates a record, or that activated it at StartTime              *)
SnapshotsAt(t) ==
    LicensesOf({ValidateLicense(<<s>>, Key1, "dev1", ua, t, v, "ok").resp :
                   s \in CacheShapes, ua \in UserAgents, v \in Variants})
    \cup
    LicensesOf({CheckSession(
                   ValidateLicense(<<s>>, Key1, "dev1", ua, StartTime, v, "ok").licenses,
                   Key1, "dev1", t, v) :
                   s \in CacheShapes, ua \in UserAgents, v \in Variants})

(* the same snapshot in the other historical spelling of its members *)
Rename(o, f, g) ==
    IF Has(o, f)
    THEN [x \in (DOMAIN o \ {f}) \cup {g} |-> IF x = g THEN o[f] ELSE o[x]]
    ELSE o
CamelCase(license) ==
    Rename(Rename(license, "processed_videos", "processedVideos"),
           "device_name", "deviceName")

(* what callers hand to createSession at each time: a snapshot, in either  *)
(* spelling of its members                                                 *)
CreateInputs ==
    [t \in StartTime .. MaxTime |->
        SnapshotsAt(t) \cup {CamelCase(x) : x \in SnapshotsAt(t)}]
AllCreateInputs == UNION {CreateInputs[t] : t \in StartTime .. MaxTime}

(* a session object without its license *)
NoLicenseBlob(t) ==
    [deviceId |-> "dev1", createdAt |-> t, expiresAt |-> t + SessionDuration]

CreateStep(licenseData, deviceId) ==
    /\ licenseData \in CreateInputs[now]
    /\ storage' = createSession(storage, licenseData, deviceId, now).storage
    /\ cache' = [op |-> "create", input |-> licenseData,
                 result |-> createSession(storage, licenseData, deviceId, now).session]
    /\ UNCHANGED <<store, now, envOk, req, last, okDevices, okCount, gate, authVars>>

ReadStep ==
    /\ storage' = checkSession(storage, now).storage
    /\ cache' = [op |-> "read", before |-> DOMAIN storage,
                 result |-> checkSession(storage, now).result]
    /\ UNCHANGED <<store, now, envOk, req, last, okDevices, okCount, gate, authVars>>

DestroyStep ==
    /\ storage' = destroySession(storage)
    /\ cache' = [op |-> "destroy", before |-> DOMAIN storage]
    /\ UNCHANGED <<store, now, envOk, req, last, okDevices, okCount, gate, authVars>>

(* FingerprintGenerator.getDeviceId leaves the fingerprint in localStorage *)
GetDeviceId(deviceId) ==
    /\ storage' = setItem(storage, DEVICE_ID, deviceId)
    /\ UNCHANGED <<store, now, envOk, req, last, okDevices, okCount, gate, cache, authVars>>

(* the session entry is damaged outside the Session Cache *)
Corrupt(blob) ==
    /\ storage' = setItem(storage, SESSION, blob)
    /\ UNCHANGED <<store, now, envOk, req, last, okDevices, okCount, gate, cache, authVars>>

(* the blobs a damaged session entry holds *)
CorruptBlobs == {Garbage, NoLicenseBlob(StartTime)}

CacheNext ==
    \/ \E licenseData \in AllCreateInputs, deviceId \in {"dev1", NullStr} :
            CreateStep(licenseData, deviceId)
    \/ ReadStep
    \/ DestroyStep
    \/ \E deviceId \in Devices : GetDeviceId(deviceId)
    \/ \E blob \in CorruptBlobs : Corrupt(blob)
    \/ Tick

SpecCache == RaceInit /\ [][CacheNext]_vars

(* ------------------- properties of the Session Cache ------------------ *)
(* this step is a call of createSession *)
Created ==
    \E licenseData \in AllCreateInputs, deviceId \in {"dev1", NullStr} :
        CreateStep(licenseData, deviceId)

(* both spellings of the usage counter and of the device label, equal *)
BothSpellings(license) ==
    /\ Has(license, "processed_videos") /\ Has(license, "processedVideos")
    /\ license.processed_videos = license.processedVideos
    /\ Has(license, "device_name") /\ Has(license, "deviceName")
    /\ license.device_name = license.deviceName

(* C16: for every license snapshot the Authority can return,               *)
(* create(snapshot, deviceId) followed immediately by read() returns       *)
(* valid:true with a session whose license members equal the input         *)
(* snapshot and in which both spellings of the usage counter and of the    *)
(* device label are present with identical values.                         *)
C16_CreateThenRead ==
    [][Created =>
         LET read == checkSession(storage', now).result IN
         /\ read.valid
         /\ \A f \in DOMAIN cache'.input :
               /\ Has(read.session.license, f)
               /\ read.session.license[f] = cache'.input[f]
         /\ BothSpellings(read.session.license)]_vars

(* C17: every write of a session by the Session Cache stores the license   *)
(* snapshot with both spellings of the usage counter (processed_videos,    *)
(* processedVideos) and both spellings of the device label (device_name,   *)
(* deviceName) populated, whichever single spelling the input carried.     *)
C17_WriteStoresBothSpellings ==
    [][Created => BothSpellings(storage'[SESSION].license)]_vars

(* the persisted session cannot be used: not JSON, or without a license    *)
(* that has an expiry                                                      *)
Unusable(st) ==
    /\ Has(st, SESSION)
    /\ ~Parses(st[SESSION]) \/ InvalidStructure(st[SESSION])

(* C18: when the persisted session blob is unparseable or lacks required   *)
(* fields, read() returns valid:false with invalid_data or                 *)
(* invalid_session_structure, removes the session, device id and license   *)
(* key entries, and the next read() returns no_session.                    *)
C18_ReadPurgesUnusable ==
    [][(ReadStep /\ Unusable(storage)) =>
         /\ cache'.result.valid = FALSE
         /\ cache'.result.error = IF Parses(storage[SESSION])
                                  THEN "invalid_session_structure" ELSE "invalid_data"
         /\ DOMAIN storage' \cap CacheKeys = {}
         /\ checkSession(storage', now').result = Invalid("no_session")]_vars

C18_Witness ==
    /\ cache.op = "read"
    /\ cache.result.error = "invalid_data"
    /\ cache.before = CacheKeys
    /\ DOMAIN storage = {}

(* C19: read() returns valid:true only when neither the session's local    *)
(* TTL nor the embedded license's expiry has passed: it fails              *)
(* session_expired when the TTL has passed, whatever the license expiry    *)
(* is, and subscription_expired when the TTL is live but the license       *)
(* expiry has passed.                                                      *)
C19_BothExpiriesChecked ==
    [][ReadStep =>
         /\ cache'.result.valid =>
               Has(storage, SESSION) /\ ~Unusable(storage)
         /\ (Has(storage, SESSION) /\ ~Unusable(storage)) =>
               LET ttlPassed == storage[SESSION].expiresAt < now
                   licensePassed == storage[SESSION].license.expiresAt < now
               IN  /\ ttlPassed => cache'.result = Invalid("session_expired")
                   /\ (~ttlPassed /\ licensePassed)
                         => cache'.result = Invalid("subscription_expired")
                   /\ cache'.result.valid <=> (~ttlPassed /\ ~licensePassed)]_vars

C19_Witness ==
    /\ cache.op = "read"
    /\ cache.result.error = "session_expired"
    /\ Has(storage, SESSION) /\ ~Unusable(storage)
    /\ storage[SESSION].expiresAt < now
    /\ storage[SESSION].license.expiresAt >= now

(* C20: destroy() removes the session blob, the device id and the license  *)
(* key from any starting state, and calling it again, or when nothing is   *)
(* persisted, leaves the same empty state.                                 *)
C20_DestroyClearsAll ==
    [][DestroyStep =>
         /\ DOMAIN storage' \cap CacheKeys = {}
         /\ destroySession(storage') = storage'
         /\ (DOMAIN storage \cap CacheKeys = {}) => storage' = storage]_vars

C20_Witness ==
    /\ cache.op = "destroy"
    /\ cache.before = CacheKeys
    /\ DOMAIN storage = {}

(* -------------------------- the Auth Coordinator ---------------------- *)
(* one POST to /api/validate-license, from the missing-input test to the   *)
(* answer: the answer and the collection the store holds afterwards        *)
RemoteValidate(licenses, licenseKey, deviceId, ua, t, variant, env, fetchOk, put) ==
    LET early == EarlyResponse("validate", licenseKey, deviceId, variant, env, fetchOk)
        out == ValidateLicense(licenses, licenseKey, deviceId, ua, t, variant, put)
    IN  IF early # NoResp
        THEN [resp |-> early, licenses |-> licenses]
        ELSE [resp |-> out.resp,
              licenses |-> IF out.write THEN out.licenses ELSE licenses]

(* one POST to /api/check-session: the answer *)
RemoteCheck(licenses, licenseKey, deviceId, t, variant, env, fetchOk) ==
    LET early == EarlyResponse("check", licenseKey, deviceId, variant, env, fetchOk)
    IN  IF early # NoResp THEN early
        ELSE CheckSession(licenses, licenseKey, deviceId, t, variant)

(* what fetch does: "ok" delivers the request and the answer, "fail"       *)
(* rejects before the request reaches the Authority                        *)
NetOutcomes == {"ok", "fail"}

(* how a request can go: fetch rejects, the handler's GET of the store     *)
(* fails (check-session), its PUT fails (validate-license), or all goes    *)
(* well                                                                    *)
Outcome(net, fetchOk, put) == [net |-> net, fetchOk |-> fetchOk, put |-> put]
CheckOutcomes ==
    {Outcome("fail", TRUE, "ok"), Outcome("ok", FALSE, "ok"), Outcome("ok", TRUE, "ok")}
ValidateOutcomes ==
    {Outcome("fail", TRUE, "ok")} \cup {Outcome("ok", TRUE, put) : put \in PutOutcomes}

(* JSON.stringify({licenseKey, deviceId}) with deviceId null: the handler's *)
(* !deviceId test treats null like the empty string                        *)
BodyDevice(deviceId) == IF TruthyStr(deviceId) THEN deviceId ELSE ""

ApiResult(valid, error, license) ==
    [valid |-> valid, error |-> error, license |-> license]

(* API.validateLicense: the wrapper around the validate-license request *)
validateLicense(net, resp) ==
    IF net = "fail" THEN ApiResult(FALSE, "network", NoLicense)
    ELSE IF resp.status \notin 200 .. 299
    THEN ApiResult(FALSE, OrStr(resp.error, "api_error"), NoLicense)
    ELSE ApiResult(resp.valid, resp.error, resp.license)

(* API.verifyActiveSession: the wrapper around the strict check-session *)
verifyActiveSession(net, data, t) ==
    IF net = "fail"
    THEN [valid |-> FALSE, reason |-> "NETWORK_ERROR", license |-> NoLicense]
    ELSE IF ~data.valid
    THEN [valid |-> FALSE, reason |-> "INVALID_SESSION", license |-> NoLicense]
    ELSE IF Has(data.license, "expiresAt") /\ DateBefore(data.license.expiresAt, t)
    THEN [valid |-> FALSE, reason |-> "EXPIRED", license |-> NoLicense]
    ELSE [valid |-> TRUE, reason |-> UndefStr, license |-> data.license]

(* a coordinator that takes any answer of the Authority as a confirmation *)
ServerConfirmsAlways(serverData) == TRUE

(* init: if (!serverData.valid) { this.logout(); return false; } *)
ServerConfirms(serverData) == serverData.valid

(* AuthManager.validateLicenseFormat: key && key.length > 0 *)
validateLicenseFormat(key) == key # <<>>

(* a coordinator that lets everyone through *)
hasAccessAlways(a) == TRUE

(* AuthManager.hasAccess *)
hasAccess(a) == a.isAuthenticated /\ a.currentSession # NoSession

(* a logout that keeps what is persisted *)
logoutMemoryOnly(a, st) == [auth |-> SignedOut, storage |-> st]

(* AuthManager.logout: the coordinator and localStorage afterwards *)
logout(a, st) == [auth |-> SignedOut, storage |-> destroySession(st)]

(* a verification that leaves the session in memory as it was *)
syncLicenseSkipped(session, license) == session

(* this.currentSession.license = verification.license; createSession then  *)
(* adds the missing spelling of the usage counter to that same object      *)
syncLicense(session, license) ==
    [session EXCEPT !.license = normalizeFieldNames(license)]

(* a failed verification that logs the user out *)
keepOnFailureLogout(a, st) == logout(a, st)

(* if (!verification.valid) return verification: nothing is cleared *)
keepOnFailure(a, st) == [auth |-> a, storage |-> st]

(* how the Authority answered during a call *)
RemoteAnswer(resp) == IF resp.valid THEN "valid" ELSE "invalid"

(* the record of a call: what was called, what it returned, the requests   *)
(* it sent, how the Authority answered; seq alternates from call to call   *)
AuthCall(op, ok, sent, remote) ==
    [op |-> op, ok |-> ok, sent |-> sent, remote |-> remote, seq |-> 1 - call.seq]

(* the keys typed into login: a known key, an unknown key, nothing, blanks *)
LoginKeys == KeyInputs \cup {<<>>, <<" ">>}

(* AuthManager.init, with fp the fingerprint getDeviceId generates *)
InitCall(fp, variant, net, fetchOk) ==
    LET st1 == setItem(storage, DEVICE_ID, fp)
        sessionCheck == checkSession(st1, now)
        session == sessionCheck.result.session
        serverData == RemoteCheck(store, session.license.key, BodyDevice(fp),
                                  now, variant, envOk, fetchOk)
    IN  /\ IF ~sessionCheck.result.valid
           THEN /\ auth' = [isAuthenticated |-> FALSE, currentSession |-> NoSession,
                            deviceId |-> fp]
                /\ storage' = sessionCheck.storage
                /\ call' = AuthCall("init", FALSE, 0, "none")
           ELSE IF net = "fail"
           THEN /\ auth' = [auth EXCEPT !.deviceId = fp]
                /\ storage' = sessionCheck.storage
                /\ call' = AuthCall("init", FALSE, 1, "fail")
           ELSE IF ~ServerConfirms(serverData)
           THEN /\ auth' = logout(auth, sessionCheck.storage).auth
                /\ storage' = logout(auth, sessionCheck.storage).storage
                /\ call' = AuthCall("init", FALSE, 1, RemoteAnswer(serverData))
           ELSE /\ auth' = [isAuthenticated |-> TRUE, currentSession |-> session,
                            deviceId |-> IF TruthyStr(session.deviceId)
                                         THEN session.deviceId ELSE fp]
                /\ storage' = sessionCheck.storage
                /\ call' = AuthCall("init", TRUE, 1, RemoteAnswer(serverData))
        /\ UNCHANGED <<store, now, envOk, req, last, okDevices, okCount, gate, cache,
                       pend, ret>>

(* AuthManager.login *)
LoginCall(licenseKey, fp, ua, variant, net, fetchOk, put) ==
    LET st1 == setItem(storage, DEVICE_ID, fp)
        remote == RemoteValidate(store, licenseKey, BodyDevice(fp), ua, now,
                                 variant, envOk, fetchOk, put)
        validation == validateLicense(net, remote.resp)
        created == createSession(st1, validation.license, fp, now)
    IN  /\ Videos(store[1]) < MaxValid
        /\ IF ~validateLicenseFormat(licenseKey)
           THEN /\ call' = AuthCall("login", FALSE, 0, "none")
                /\ UNCHANGED <<auth, storage, store>>
           ELSE IF net = "fail"
           THEN /\ auth' = [auth EXCEPT !.deviceId = fp]
                /\ storage' = st1
                /\ call' = AuthCall("login", FALSE, 1, "fail")
                /\ UNCHANGED store
           ELSE IF ~validation.valid
           THEN /\ auth' = [auth EXCEPT !.deviceId = fp]
                /\ storage' = st1
                /\ store' = remote.licenses
                /\ call' = AuthCall("login", FALSE, 1, RemoteAnswer(remote.resp))
           ELSE /\ auth' = [isAuthenticated |-> TRUE,
                            currentSession |-> [created.session EXCEPT !.deviceId = fp],
                            deviceId |-> fp]
                /\ storage' = created.storage
                /\ store' = remote.licenses
                /\ call' = AuthCall("login", TRUE, 1, RemoteAnswer(remote.resp))
        /\ UNCHANGED <<now, envOk, req, last, okDevices, okCount, gate, cache,
                       pend, ret>>

(* AuthManager.logout *)
LogoutCall ==
    /\ auth' = logout(auth, storage).auth
    /\ storage' = logout(auth, storage).storage
    /\ call' = AuthCall("logout", TRUE, 0, "none")
    /\ UNCHANGED <<store, now, envOk, req, last, okDevices, okCount, gate, cache,
                   pend, ret>>

(* AuthManager.verifyBeforeProcessing *)
VerifyCall(variant, net, fetchOk) ==
    LET key == auth.currentSession.license.key
        data == RemoteCheck(store, key, BodyDevice(auth.deviceId), now, variant,
                            envOk, fetchOk)
        verification == verifyActiveSession(net, data, now)
    IN  /\ IF ~hasAccess(auth)
           THEN /\ call' = AuthCall("verify", FALSE, 0, "none")
                /\ UNCHANGED <<auth, storage>>
           ELSE IF auth.currentSession = NoSession
           THEN \* this.currentSession.license on null: the call throws
                /\ call' = AuthCall("verify", FALSE, 0, "threw")
                /\ UNCHANGED <<auth, storage>>
           ELSE IF ~verification.valid
           THEN /\ call' = AuthCall("verify", FALSE, 1,
                                    IF net = "fail" THEN "fail" ELSE RemoteAnswer(data))
                /\ auth' = keepOnFailure(auth, storage).auth
                /\ storage' = keepOnFailure(auth, storage).storage
           ELSE /\ auth' = [auth EXCEPT !.currentSession =
                                syncLicense(@, verification.license)]
                /\ storage' = createSession(storage, verification.license,
                                            auth.deviceId, now).storage
                /\ call' = AuthCall("verify", TRUE, 1, RemoteAnswer(data))
        /\ UNCHANGED <<store, now, envOk, req, last, okDevices, okCount, gate, cache,
                       pend, ret>>

AuthNext ==
    \/ \E fp \in Devices, variant \in Variants, o \in CheckOutcomes :
            InitCall(fp, variant, o.net, o.fetchOk)
    \/ \E licenseKey \in LoginKeys, fp \in Devices, ua \in UserAgents,
          variant \in Variants, o \in ValidateOutcomes :
            LoginCall(licenseKey, fp, ua, variant, o.net, o.fetchOk, o.put)
    \/ LogoutCall
    \/ \E variant \in Variants, o \in CheckOutcomes :
            VerifyCall(variant, o.net, o.fetchOk)
    \/ Tick

(* the store is configured and holds a license with a duration or one     *)
(* without expiry                                                          *)
AuthInit ==
    /\ Init
    /\ envOk
    /\ store[1].expires_at = UNDEF
    /\ store[1].duration_days # NULL

SpecAuth == AuthInit /\ [][AuthNext]_vars

(* ------------------ properties of the Auth Coordinator ---------------- *)
(* this step is a call of init, of login, of verifyBeforeProcessing *)
InitStep ==
    \E fp \in Devices, variant \in Variants, o \in CheckOutcomes :
        InitCall(fp, variant, o.net, o.fetchOk)
LoginStep ==
    \E licenseKey \in LoginKeys, fp \in Devices, ua \in UserAgents,
       variant \in Variants, o \in ValidateOutcomes :
        LoginCall(licenseKey, fp, ua, variant, o.net, o.fetchOk, o.put)
VerifyStep ==
    \E variant \in Variants, o \in CheckOutcomes : VerifyCall(variant, o.net, o.fetchOk)

(* the coordinator is in the Authenticated state *)
Authenticated(a) == a.isAuthenticated /\ a.currentSession # NoSession

(* this step is a call of the coordinator *)
Called == call'.seq # call.seq

(* C21: the coordinator becomes Authenticated only inside an init() or     *)
(* login() call during which the Authority answered valid:true; a locally  *)
(* valid cached session alone never makes init() return true.              *)
C21_RemoteAnswerAuthenticates ==
    [][/\ (~Authenticated(auth) /\ Authenticated(auth'))
            => /\ Called
               /\ call'.op \in {"init", "login"}
               /\ call'.remote = "valid"
       /\ (Called /\ call'.op = "init" /\ call'.ok)
            => /\ call'.remote = "valid"
               /\ \E variant \in Variants :
                     RemoteCheck(store, storage[SESSION].license.key,
                                 storage'[DEVICE_ID], now, variant, envOk, TRUE).valid]_vars

C21_Witness ==
    /\ call.op = "init"
    /\ call.ok
    /\ call.remote = "valid"
    /\ Authenticated(auth)

(* C22: when init() finds a locally valid session and the remote           *)
(* checkSession answers valid:false, init() returns false and logs out:    *)
(* the three persisted entries are removed and the in-memory session,      *)
(* device id and Authenticated flag are cleared.                           *)
C22_RemoteRejectionLogsOut ==
    [][(Called /\ call'.op = "init" /\ call'.remote = "invalid")
         => /\ checkSession(storage, now).result.valid
            /\ ~call'.ok
            /\ DOMAIN storage' \cap CacheKeys = {}
            /\ ~auth'.isAuthenticated
            /\ auth'.currentSession = NoSession
            /\ auth'.deviceId = NullStr]_vars

C22_Witness ==
    /\ call.op = "init"
    /\ call.remote = "invalid"
    /\ ~call.ok
    /\ ~Authenticated(auth)
    /\ DOMAIN storage = {}

(* C23: when the remote checkSession call made by init() fails at the      *)
(* transport level, init() returns false and the coordinator is            *)
(* Unauthenticated afterwards (hasAccess() is false), whatever its state   *)
(* was before the call.                                                    *)
C23_TransportFailureFailsClosed ==
    [][\A fp \in Devices, variant \in Variants, o \in CheckOutcomes :
         ( /\ InitCall(fp, variant, o.net, o.fetchOk)
           /\ o.net = "fail"
           /\ checkSession(setItem(storage, DEVICE_ID, fp), now).result.valid )
         => ~call'.ok /\ ~hasAccess(auth')]_vars

(* C24: a login(key) call that fails leaves the Authenticated flag, the    *)
(* in-memory session, the in-memory device id and the three persisted      *)
(* entries exactly as they were before the call.                           *)
C24_FailedLoginChangesNothing ==
    [][(LoginStep /\ ~call'.ok) => (auth' = auth /\ storage' = storage)]_vars

(* C25: login(key) rejects every key that is empty after trimming and      *)
(* uppercasing before obtaining a device id and without sending a request  *)
(* to the Authority; every key that is non-empty after trimming is passed  *)
(* to validate.                                                            *)
C25_EmptyKeyRejectedLocally ==
    [][\A licenseKey \in LoginKeys, fp \in Devices, ua \in UserAgents,
          variant \in Variants, o \in ValidateOutcomes :
         LoginCall(licenseKey, fp, ua, variant, o.net, o.fetchOk, o.put)
         => IF normalize(licenseKey) = <<>>
            THEN /\ ~call'.ok
                 /\ call'.sent = 0
                 /\ auth' = auth /\ storage' = storage /\ store' = store
            ELSE call'.sent = 1]_vars

(* C26: verifyBeforeProcessing() called while the coordinator is not       *)
(* Authenticated returns valid:false without sending a request to the      *)
(* Authority and without changing in-memory or persisted state.            *)
C26_VerifyFailsFastWhenSignedOut ==
    [][(Called /\ call'.op = "verify"
           /\ ~(auth.isAuthenticated /\ auth.currentSession # NoSession))
         => /\ ~call'.ok
            /\ call'.sent = 0
            /\ call'.remote = "none"
            /\ auth' = auth
            /\ storage' = storage
            /\ store' = store]_vars

C26_Witness ==
    /\ call.op = "verify"
    /\ call.sent = 0
    /\ ~call.ok
    /\ ~Authenticated(auth)
    /\ DEVICE_ID \in DOMAIN storage

(* the license snapshots check-session returns for this key and device now *)
FreshSnapshots(key, deviceId) ==
    {RemoteCheck(store, key, BodyDevice(deviceId), now, variant, envOk, TRUE).license :
        variant \in {v \in Variants :
            RemoteCheck(store, key, BodyDevice(deviceId), now, v, envOk, TRUE).valid}}

(* license a carries every member of snapshot b with b's value, and        *)
(* nothing more than the other spelling of the usage counter               *)
CarriesSnapshot(a, b) ==
    /\ \A f \in DOMAIN b : Has(a, f) /\ a[f] = b[f]
    /\ DOMAIN a \ DOMAIN b \subseteq {"processedVideos"}
    /\ Has(a, "processedVideos") => a.processedVideos = b.processed_videos

(* C27: after verifyBeforeProcessing() returns valid:true, the license of  *)
(* the in-memory session and the license of the persisted session equal    *)
(* the snapshot the server returned in that call (with the usage counter   *)
(* also under its other spelling).                                         *)
C27_VerifySyncsSnapshot ==
    [][(Called /\ call'.op = "verify" /\ call'.ok)
         => \E snapshot \in FreshSnapshots(auth.currentSession.license.key,
                                           auth.deviceId) :
              /\ CarriesSnapshot(auth'.currentSession.license, snapshot)
              /\ Has(storage', SESSION)
              /\ CarriesSnapshot(storage'[SESSION].license, snapshot)
              /\ snapshot.processed_videos = Videos(store[1])
              /\ snapshot.device_name = store[1].device_name]_vars

C27_Witness ==
    /\ call.op = "verify"
    /\ call.ok
    /\ Authenticated(auth)
    /\ auth.currentSession.license.processed_videos = 2
    /\ Has(storage, SESSION)
    /\ storage[SESSION].license.processed_videos = 2

(* C28: when verifyBeforeProcessing() fails (remote rejection, expiry or   *)
(* network error) it returns valid:false and leaves the Authenticated      *)
(* flag, the in-memory session and the three persisted entries exactly as  *)
(* they were before the call.                                              *)
C28_FailedVerifyChangesNothing ==
    [][(Called /\ call'.op = "verify" /\ call'.sent = 1
           /\ (call'.remote # "valid" \/ ~call'.ok))
         => /\ ~call'.ok
            /\ auth' = auth
            /\ storage' = storage]_vars

C28_Witness ==
    /\ call.op = "verify"
    /\ call.remote = "invalid"
    /\ ~call.ok
    /\ Authenticated(auth)
    /\ Has(storage, SESSION)

(* C29: logout() succeeds from every state and, when it returns, the       *)
(* coordinator is Unauthenticated with no in-memory session and no         *)
(* in-memory device id, and none of the three persisted entries exists.    *)
C29_LogoutClearsAll ==
    [][(Called /\ call'.op = "logout")
         => /\ call'.ok
            /\ ~auth'.isAuthenticated
            /\ auth'.currentSession = NoSession
            /\ auth'.deviceId = NullStr
            /\ DOMAIN storage' \cap CacheKeys = {}]_vars

C29_Witness ==
    /\ call.op = "logout"
    /\ call.ok
    /\ ~auth.isAuthenticated
    /\ DOMAIN storage = {}
    /\ store[1].device_hash = "dev1"

(* the error codes the specification lists as surfaced to callers *)
ErrorCodes ==
    {"invalidLicense", "deviceMismatch", "expired", "network", "server_error",
     "invalid_session_structure", "no_session"}

(* C30: every error code that the Authority endpoints, the Session Cache   *)
(* read and the client API wrapper return in a valid:false result is one   *)
(* of invalidLicense, deviceMismatch, expired, network, server_error,      *)
(* invalid_session_structure, no_session.                                  *)
C30_ErrorCodesInEnum ==
    /\ (last.op \in {"validate", "check"} /\ ~last.resp.valid)
          => last.resp.error \in ErrorCodes
    /\ (last.op = "validate")
          => \A net \in NetOutcomes :
                ~validateLicense(net, last.resp).valid
                => validateLicense(net, last.resp).error \in ErrorCodes
    /\ (cache.op = "read" /\ ~cache.result.valid)
          => cache.result.error \in ErrorCodes

(* ------------------- the guards of the two operations ------------------ *)
(* C31: in validate and in checkSession the device guard runs before the   *)
(* expiry guard: a call on a record that is bound to another device and    *)
(* past its expiry is answered deviceMismatch; and the expiry guard fires  *)
(* only when expires_at is set: a call on a record whose expires_at is     *)
(* null or absent is never answered expired.                               *)
C31_DeviceGuardFirstExpiryOnlyWhenSet ==
    [][\A r \in ReqIds :
         ( /\ ValidateDone(r) \/ CheckDone(r)
           /\ Found(r) )
         => /\ ( /\ Bound(Read(r))
                 /\ Read(r).device_hash # req[r].deviceId
                 /\ PastExpiry(Read(r), now) )
               => last'.resp.error = "deviceMismatch"
            /\ ~TruthyTime(Read(r).expires_at)
               => last'.resp.error # "expired"]_vars

(* C36: in every deployment of validate (Vercel, Netlify, Express) a       *)
(* valid:true answer is given only if the PUT of the updated collection    *)
(* succeeded; a validate whose collection was not written answers          *)
(* valid:false and sets no cookie.                                         *)
C36_ValidOnlyIfWritten ==
    [][\A r \in ReqIds :
         ValidateDone(r)
         => /\ last'.resp.valid => last'.wrote
            /\ ~last'.wrote => /\ ~last'.resp.valid
                               /\ last'.resp.cookie = NoCookie]_vars

(* C37: for every activated stored record and every device id, validate    *)
(* and checkSession made at the same time agree: one answers valid:true    *)
(* exactly when the other does, and otherwise both give the same error,    *)
(* also for records whose expires_at is null or absent.                    *)
C37_ValidateAndCheckAgree ==
    \A i \in Records :
        isActivated(store[i])
        => \A deviceId \in Devices, ua \in UserAgents, variant \in Variants :
             LET v == ValidateLicense(store, store[i].key, deviceId, ua, now,
                                      variant, "ok").resp
                 c == CheckSession(store, store[i].key, deviceId, now, variant)
             IN  /\ v.valid = c.valid
                 /\ ~v.valid => v.error = c.error

(* ----------------- expiry of the persisted session -------------------- *)
(* C33: whenever read() reports that the local TTL of the session or the   *)
(* expiry of the embedded license has passed, the session is destroyed:    *)
(* after that read() the persisted session entries no longer exist and     *)
(* the next read() returns no_session.                                     *)
C33_ExpiredReadDestroys ==
    [][(ReadStep /\ cache'.result.error \in {"session_expired",
                                             "subscription_expired"}) =>
         /\ DOMAIN storage' \cap CacheKeys = {}
         /\ checkSession(storage', now').result = Invalid("no_session")]_vars

(* ------------- the Auth Coordinator, call by call and await ----------- *)
(* the message member of a validate-license answer: the localized texts    *)
(* of the 200 failures (validate-license.js:96, :124, :135; part_001:413,  *)
(* :433, :436), the text of the Vercel catch block, none otherwise         *)
ValidateMessage(resp, variant) ==
    CASE resp.error = "invalidLicense" -> "message: no subscription"
      [] resp.error = "deviceMismatch" ->
            IF variant = "express" THEN "message: another device"
            ELSE "message: key bound to another device"
      [] resp.error = "expired" ->
            IF variant = "express" THEN "message: subscription ended"
            ELSE "message: subscription key expired"
      [] resp.error = "network" /\ variant = "vercel" ->
            "Network error. Please try again."
      [] OTHER -> UndefStr

(* `API Error: ${response.status}` *)
ApiErrorMessage(status) ==
    CASE status = 400 -> "API Error: 400"
      [] status = 500 -> "API Error: 500"
      [] OTHER -> "API Error"

(* the message member of what API.validateLicense returns *)
validateLicenseMessage(net, resp, variant) ==
    IF net = "fail" THEN "Network error. Please try again."
    ELSE IF resp.status \notin 200 .. 299
    THEN OrStr(ValidateMessage(resp, variant), ApiErrorMessage(resp.status))
    ELSE ValidateMessage(resp, variant)

(* what login returns when the validation is not valid: the error member   *)
(* is validation.message || 'Invalid license'                              *)
loginFailure(message) ==
    [success |-> FALSE, error |-> OrStr(message, "Invalid license")]

(* the outcome of the Authority for the request of a call, as the client   *)
(* API sees it: error network when fetch rejects                           *)
NoRemote == [valid |-> FALSE, error |-> "<no request>"]
RemoteOutcome(net, resp) ==
    IF net = "fail" THEN [valid |-> FALSE, error |-> "network"]
    ELSE [valid |-> resp.valid, error |-> resp.error]

(* the end of a call: what it returned, the requests it sent, the outcome  *)
(* of the Authority, whether logout ran while the call awaited             *)
Returned(op, result, sent, remote, stale) ==
    [op |-> op, result |-> result, threw |-> FALSE, sent |-> sent,
     remote |-> remote, stale |-> stale]

(* the call ended in an exception that nothing catches *)
Threw(op, sent, remote, stale) ==
    [op |-> op, result |-> [none |-> TRUE], threw |-> TRUE, sent |-> sent,
     remote |-> remote, stale |-> stale]

(* a client that repeats every request once *)
fetchTwice(sent) == sent + 2

(* fetch is called once per call of the client API, outside any loop: the  *)
(* requests the call has sent, this one included                           *)
fetch(sent) == sent + 1

(* AuthManager.login up to `await api.validateLicense(licenseKey, deviceId)` *)
LoginStart(licenseKey, fp) ==
    /\ pend = NoPend
    /\ Videos(store[1]) < MaxValid
    /\ IF ~validateLicenseFormat(licenseKey)
       THEN /\ ret' = Returned("login", [success |-> FALSE,
                                         error |-> "Invalid license key format"],
                               0, NoRemote, FALSE)
            /\ UNCHANGED <<auth, storage, pend>>
       ELSE /\ auth' = [auth EXCEPT !.deviceId = fp]
            /\ storage' = setItem(storage, DEVICE_ID, fp)
            /\ pend' = [op |-> "login", licenseKey |-> licenseKey, deviceId |-> fp,
                        sent |-> fetch(0), stale |-> FALSE]
            /\ UNCHANGED ret
    /\ UNCHANGED <<store, now, envOk, req, last, okDevices, okCount, gate, cache, call>>

(* AuthManager.login from the answer of the Authority on *)
LoginResume(ua, variant, net, fetchOk, put) ==
    /\ pend.op = "login"
    /\ LET remote == RemoteValidate(store, pend.licenseKey, BodyDevice(pend.deviceId),
                                    ua, now, variant, envOk, fetchOk, put)
           validation == validateLicense(net, remote.resp)
           message == validateLicenseMessage(net, remote.resp, variant)
           created == createSession(storage, validation.license, pend.deviceId, now)
           session == [created.session EXCEPT !.deviceId = pend.deviceId]
       IN  /\ store' = IF net = "fail" THEN store ELSE remote.licenses
           /\ IF ~validation.valid
              THEN /\ ret' = Returned("login", loginFailure(message), pend.sent,
                                      RemoteOutcome(net, remote.resp), pend.stale)
                   /\ UNCHANGED <<auth, storage>>
              ELSE /\ auth' = [isAuthenticated |-> TRUE, currentSession |-> session,
                               deviceId |-> pend.deviceId]
                   /\ storage' = created.storage
                   /\ ret' = Returned("login", [success |-> TRUE, session |-> session],
                                      pend.sent, RemoteOutcome(net, remote.resp),
                                      pend.stale)
    /\ pend' = NoPend
    /\ UNCHANGED <<now, envOk, req, last, okDevices, okCount, gate, cache, call>>

(* AuthManager.init up to `await fetch('/api/check-session', ...)` *)
InitStart(fp) ==
    /\ pend = NoPend
    /\ LET sessionCheck == checkSession(setItem(storage, DEVICE_ID, fp), now)
       IN  /\ storage' = sessionCheck.storage
           /\ IF ~sessionCheck.result.valid
              THEN /\ auth' = [isAuthenticated |-> FALSE, currentSession |-> NoSession,
                               deviceId |-> fp]
                   /\ ret' = Returned("init", [value |-> FALSE], 0, NoRemote, FALSE)
                   /\ UNCHANGED pend
              ELSE /\ auth' = [auth EXCEPT !.deviceId = fp]
                   /\ pend' = [op |-> "init", session |-> sessionCheck.result.session,
                               deviceId |-> fp, sent |-> fetch(0), stale |-> FALSE]
                   /\ UNCHANGED ret
    /\ UNCHANGED <<store, now, envOk, req, last, okDevices, okCount, gate, cache, call>>

(* AuthManager.init from the answer of the Authority on *)
InitResume(variant, net, fetchOk) ==
    /\ pend.op = "init"
    /\ LET serverData == RemoteCheck(store, pend.session.license.key,
                                     BodyDevice(pend.deviceId), now, variant,
                                     envOk, fetchOk)
           remote == RemoteOutcome(net, serverData)
       IN  IF net = "fail"
           THEN /\ ret' = Returned("init", [value |-> FALSE], pend.sent, remote,
                                pend.stale)
                /\ UNCHANGED <<auth, storage>>
           ELSE IF ~ServerConfirms(serverData)
           THEN /\ auth' = logout(auth, storage).auth
                /\ storage' = logout(auth, storage).storage
                /\ ret' = Returned("init", [value |-> FALSE], pend.sent, remote,
                                pend.stale)
           ELSE /\ auth' = [isAuthenticated |-> TRUE, currentSession |-> pend.session,
                            deviceId |-> IF TruthyStr(pend.session.deviceId)
                                         THEN pend.session.deviceId ELSE auth.deviceId]
                /\ UNCHANGED storage
                /\ ret' = Returned("init", [value |-> TRUE], pend.sent, remote,
                                pend.stale)
    /\ pend' = NoPend
    /\ UNCHANGED <<store, now, envOk, req, last, okDevices, okCount, gate, cache, call>>

(* AuthManager.verifyBeforeProcessing up to                                *)
(* `await api.verifyActiveSession(key, deviceId)`                          *)
VerifyStart ==
    /\ pend = NoPend
    /\ IF ~hasAccess(auth)
       THEN /\ ret' = Returned("verify", [valid |-> FALSE, message |-> "not logged in"],
                               0, NoRemote, FALSE)
            /\ UNCHANGED pend
       ELSE /\ pend' = [op |-> "verify", key |-> auth.currentSession.license.key,
                        deviceId |-> auth.deviceId, sent |-> fetch(0),
                        stale |-> FALSE]
            /\ UNCHANGED ret
    /\ UNCHANGED <<store, now, envOk, req, last, okDevices, okCount, gate, cache,
                   storage, auth, call>>

(* AuthManager.verifyBeforeProcessing from the answer of the Authority on: *)
(* `this.currentSession.license = verification.license` throws a TypeError *)
(* when currentSession is null, and the function has no try block          *)
VerifyResume(variant, net, fetchOk) ==
    /\ pend.op = "verify"
    /\ LET data == RemoteCheck(store, pend.key, BodyDevice(pend.deviceId), now,
                               variant, envOk, fetchOk)
           verification == verifyActiveSession(net, data, now)
           remote == RemoteOutcome(net, data)
       IN  IF ~verification.valid
           THEN /\ ret' = Returned("verify", [valid |-> FALSE,
                                              reason |-> verification.reason],
                                   pend.sent, remote, pend.stale)
                /\ auth' = keepOnFailure(auth, storage).auth
                /\ storage' = keepOnFailure(auth, storage).storage
           ELSE IF auth.currentSession = NoSession
           THEN /\ ret' = Threw("verify", pend.sent, remote, pend.stale)
                /\ UNCHANGED <<auth, storage>>
           ELSE /\ auth' = [auth EXCEPT !.currentSession =
                                syncLicense(@, verification.license)]
                /\ storage' = createSession(storage, verification.license,
                                            auth.deviceId, now).storage
                /\ ret' = Returned("verify", [valid |-> TRUE], pend.sent, remote,
                                   pend.stale)
    /\ pend' = NoPend
    /\ UNCHANGED <<store, now, envOk, req, last, okDevices, okCount, gate, cache, call>>

(* AuthManager.logout, called while no call or one call awaits its answer *)
Logout ==
    /\ auth' = logout(auth, storage).auth
    /\ storage' = logout(auth, storage).storage
    /\ pend' = IF pend = NoPend THEN pend ELSE [pend EXCEPT !.stale = TRUE]
    /\ ret' = Returned("logout", [none |-> TRUE], 0, NoRemote, FALSE)
    /\ UNCHANGED <<store, now, envOk, req, last, okDevices, okCount, gate, cache, call>>

(* the keys typed into login: a known key, an unknown key, nothing *)
AsyncKeys == KeyInputs \cup {<<>>}

(* the calls of the coordinator, each one split at its await, and logout   *)
(* at any point in between                                                 *)
AsyncNext ==
    \/ \E licenseKey \in AsyncKeys, fp \in Devices : LoginStart(licenseKey, fp)
    \/ \E ua \in UserAgents, variant \in Variants, o \in ValidateOutcomes :
            LoginResume(ua, variant, o.net, o.fetchOk, o.put)
    \/ \E fp \in Devices : InitStart(fp)
    \/ \E variant \in Variants, o \in CheckOutcomes :
            InitResume(variant, o.net, o.fetchOk)
    \/ VerifyStart
    \/ \E variant \in Variants, o \in CheckOutcomes :
            VerifyResume(variant, o.net, o.fetchOk)
    \/ Logout
    \/ Tick

(* the store is configured and holds a license with a duration *)
AsyncInit == Init /\ envOk /\ TruthyNum(store[1].duration_days)

SpecAsync == AsyncInit /\ [][AsyncNext]_vars

(* ------------- properties of the coordinator's calls ------------------ *)
(* C34: a failed outcome of the Authority reaches the caller of the        *)
(* coordinator verbatim: the result of a failed login() or                 *)
(* verifyBeforeProcessing() carries the error code (invalidLicense,        *)
(* deviceMismatch, expired, network, ...) the Authority returned for the   *)
(* request of that call.                                                   *)
C34_FailureCarriesAuthorityError ==
    ( /\ ret.op \in {"login", "verify"}
      /\ ~ret.threw
      /\ ret.sent > 0
      /\ ~ret.remote.valid )
    => /\ Has(ret.result, "error")
       /\ ret.result.error = ret.remote.error

(* C35: each call of the coordinator sends a bounded number of requests    *)
(* to the Authority and never retries: login() and init() send at most     *)
(* one, every verifyBeforeProcessing() made while Authenticated sends      *)
(* exactly one, and a valid:true result of it rests on the answer to that  *)
(* request, not on the local cache or on an earlier call.                  *)
C35_OneRequestPerCall ==
    [][/\ (pend.op = "none" /\ pend'.op # "none") => pend'.sent = 1
       /\ (pend.op # "none" /\ pend'.op = "none")
             => /\ ret'.op = pend.op
                /\ ret'.sent = 1
                /\ (ret'.op = "verify" /\ ~ret'.threw /\ ret'.result.valid)
                      => ret'.remote.valid
       /\ (pend.op = "none" /\ pend'.op = "none" /\ ret' # ret)
             => /\ ret'.sent = 0
                /\ ret'.op = "verify" => ~Authenticated(auth)]_vars

C35_Witness ==
    /\ ret.op = "verify"
    /\ ~ret.threw
    /\ ret.result.valid
    /\ ret.sent = 1
    /\ Authenticated(auth)

(* C38: after logout() the coordinator stays Unauthenticated with no       *)
(* persisted session until a login() or init() that starts after the       *)
(* logout succeeds: a login(), init() or verifyBeforeProcessing() that was *)
(* awaiting the answer of the Authority when logout() ran neither          *)
(* re-creates the session nor sets Authenticated when it resumes.          *)
C38_LogoutOutlivesPendingCalls ==
    [][(pend.op # "none" /\ pend.stale /\ pend'.op = "none")
         => /\ ~auth'.isAuthenticated
            /\ auth'.currentSession = NoSession
            /\ ~Has(storage', SESSION)]_vars

(* the answer to the request of verifyBeforeProcessing arrives or the      *)
(* request fails: fetch settles, and the continuation of the call runs     *)
VerifyAnswered ==
    \E variant \in Variants, o \in CheckOutcomes :
        VerifyResume(variant, o.net, o.fetchOk)

SpecAsyncFair == SpecAsync /\ WF_vars(VerifyAnswered)

(* C39: every verifyBeforeProcessing() call ends with a result value,      *)
(* valid:true or valid:false, once the Authority answers or the request    *)
(* fails, whenever logout() runs in between: it never ends in an exception *)
(* that nothing handles.                                                   *)
C39_VerifyEndsWithResult ==
    (pend.op = "verify") ~> (pend.op = "none" /\ ret.op = "verify" /\ ~ret.threw)

(* C40: whenever no call of the coordinator is in progress and the         *)
(* coordinator is Authenticated, a persisted session blob exists and the   *)
(* session in memory equals it: same license key and snapshot, same        *)
(* device id, same createdAt and same local expiry.                        *)
C40_MemoryEqualsPersisted ==
    (pend = NoPend /\ Authenticated(auth))
    => /\ Has(storage, SESSION)
       /\ Parses(storage[SESSION])
       /\ storage[SESSION] = StringifySession(auth.currentSession)

(* --------------- two license keys validated at the same time ---------- *)
Key2 == <<"C", "D">>

(* the bodies of the two requests: one license key each, one device each *)
TwoKeyBodies == { <<(<<" ", "a", "B", " ">>), "dev1">>, <<(<<"c", "D">>), "dev2">> }

(* the collection holds two provisioned records *)
TwoKeyInit ==
    /\ store = << Provisioned(Key1, "Gold", 1, UNDEF, FALSE),
                  Provisioned(Key2, "Gold", 1, UNDEF, FALSE) >>
    /\ now = StartTime
    /\ envOk = TRUE
    /\ req = [r \in ReqIds |-> IdleReq]
    /\ last = NoExchange
    /\ okDevices = [i \in Slots |-> {}]
    /\ okCount = [i \in Slots |-> 0]
    /\ gate = NoGate
    /\ storage = EmptyStorage
    /\ cache = NoCall
    /\ auth = SignedOut
    /\ call = NoAuthCall
    /\ pend = NoPend
    /\ ret = NoReturn

(* two validate requests that overlap: each reads the collection, and      *)
(* writes it, at any point of the other                                    *)
TwoKeyNext ==
    \/ \E r \in ReqIds, body \in TwoKeyBodies, variant \in Variants :
            Arrive(r, "validate", body, variant, TRUE)
    \/ \E r \in ReqIds, ua \in UserAgents, variant \in Variants :
            ValidateStep(r, ua, variant, "ok")
    \/ Tick

SpecTwoKeys == TwoKeyInit /\ [][TwoKeyNext]_vars

(* C32: when two validate requests for two different license keys overlap  *)
(* so that both read the collection before either writes it, both can      *)
(* return valid:true while the collection stored at the end lacks the      *)
(* activation or the counter increment of the request that wrote first:    *)
(* every write stores the collection the request read with only its own    *)
(* record changed, so the last write of the whole collection wins.         *)
C32_LastWriteWins ==
    [][\A r \in ReqIds :
         (ValidateDone(r) /\ last'.wrote)
         => /\ last'.resp.valid
            /\ \A j \in Records :
                  j # last'.index => store'[j] = req[r].licenses[j]]_vars

(* both requests were answered valid:true and the record of the one that   *)
(* wrote first is stored as it was provisioned                             *)
C32_Witness ==
    /\ \A r \in ReqIds : req[r].op = "none"
    /\ okCount[1] = 1 /\ okCount[2] = 1
    /\ \E i \in Records : ~isActivated(store[i]) /\ Videos(store[i]) = 0

====
